---- MODULE Spec2Model ----
(***************************************************************************)
(* Model of YT_TT_FB.py: a Telegram bot that lets a user pick a platform   *)
(* and a quality with inline buttons and then downloads the URL the user   *)
(* sends with yt_dlp, sends the file back as a video and removes it.       *)
(*                                                                         *)
(* Text is modelled as a sequence of one-character strings, so that the    *)
(* regular expressions of is_valid_url and str.strip are computed          *)
(* character by character.                                                 *)
(***************************************************************************)
EXTENDS Integers, Sequences, FiniteSets, TLC

\* ------------------------------------------------------------------ bounds
\* the most files the directory "downloads" holds: a download starts only while
\* a file name is free
MaxFiles == 2

\* the users that talk to the bot
Users == {1, 2}

\* ------------------------------------------------------- program constants
PLATFORMS == {"YouTube", "TikTok", "Facebook"}
QUALITIES == {"360p", "720p", "1080p", "2k"}

\* dict.get("quality", "720p"): the quality used when the session has none
DefaultQuality == "720p"

\* Sizes are byte counts; Python integers are unbounded, so a size is kept as
\* gib * 1024^3 + rem with 0 <= rem < 1024^3.
GiB == 1024 * 1024 * 1024
SizeLimit == [gib |-> 2, rem |-> 0]       \* 2 * 1024 * 1024 * 1024
SizeGT(a, b) == a.gib > b.gib \/ (a.gib = b.gib /\ a.rem > b.rem)

\* --------------------------------------------------------------- text
c_http   == <<"h","t","t","p">>
c_s      == <<"s">>
c_css    == <<":","/","/">>
c_slash  == <<"/">>
c_www    == <<"w","w","w",".">>
c_m      == <<"m",".">>
c_vm     == <<"v","m",".">>
c_vt     == <<"v","t",".">>
c_youtube  == <<"y","o","u","t","u","b","e",".","c","o","m">>
c_youtu_be == <<"y","o","u","t","u",".","b","e">>
c_tiktok   == <<"t","i","k","t","o","k",".","c","o","m">>
c_facebook == <<"f","a","c","e","b","o","o","k",".","c","o","m">>

Whitespace == {" ", "\n", "\t", "\r"}

\* str.strip(): drop leading and trailing whitespace
RECURSIVE LStrip(_)
LStrip(s) == IF s # <<>> /\ Head(s) \in Whitespace THEN LStrip(Tail(s)) ELSE s
RECURSIVE RStrip(_)
RStrip(s) == IF s # <<>> /\ s[Len(s)] \in Whitespace
             THEN RStrip(SubSeq(s, 1, Len(s) - 1)) ELSE s
Strip(s) == RStrip(LStrip(s))

\* -------------------------------------------------- regular expressions
\* A regular expression is run as an NFA over positions: a position i means
\* "the next character to read is s[i]".
HasAt(s, i, lit) ==
    /\ i + Len(lit) - 1 <= Len(s)
    /\ \A k \in 1..Len(lit) : s[i + k - 1] = lit[k]

\* the positions after reading the literal lit from a position of S
ReLit(s, S, lit) == {i + Len(lit) : i \in {j \in S : HasAt(s, j, lit)}}
\* (a|b|...)
ReAlt(s, S, lits) == UNION {ReLit(s, S, l) : l \in lits}
\* (a|b|...)?
ReOptAlt(s, S, lits) == S \cup ReAlt(s, S, lits)
\* (https?://)?
ReScheme(s, S) ==
    LET h  == ReLit(s, S, c_http)
        hs == h \cup ReLit(s, h, c_s)
    IN  S \cup ReLit(s, hs, c_css)
\* .+ : at least one character that is not a line break
ReDotPlus(s, S) == \E i \in S : i <= Len(s) /\ s[i] # "\n"

\* the dictionary `patterns` of is_valid_url: every pattern has the shape
\* (https?://)?(SUBS)?(DOMAINS)/.+
patterns ==
    [p \in PLATFORMS |->
        CASE p = "YouTube"  -> [subs |-> {c_www}, domains |-> {c_youtube, c_youtu_be}]
          [] p = "TikTok"   -> [subs |-> {c_www, c_vm, c_vt}, domains |-> {c_tiktok}]
          [] p = "Facebook" -> [subs |-> {c_www, c_m}, domains |-> {c_facebook}]]

\* re.match(pattern, url): the pattern is matched at the start of url only
re_match(pat, url) ==
    LET p0 == {1}
        p1 == ReScheme(url, p0)
        p2 == ReOptAlt(url, p1, pat.subs)
        p3 == ReAlt(url, p2, pat.domains)
        p4 == ReLit(url, p3, c_slash)
    IN  ReDotPlus(url, p4)

\* a variant of is_valid_url that uses re.search: the pattern may start anywhere
is_valid_url_search(platform, url) ==
    LET pat == patterns[platform]
        p1 == ReScheme(url, 1..(Len(url) + 1))
        p2 == ReOptAlt(url, p1, pat.subs)
        p3 == ReAlt(url, p2, pat.domains)
        p4 == ReLit(url, p3, c_slash)
    IN  ReDotPlus(url, p4)

is_valid_url(platform, url) == re_match(patterns[platform], url)

\* ------------------------------------------------------------------ state
VARIABLES
    user_state,   \* the global dict user_state: user id -> session
    files,        \* the files in the directory "downloads"
    pc,           \* where the dispatcher stands: "idle" (waiting for an update),
                  \* "engine" and "downloaded" (inside handle_url), "done" (the
                  \* handler of the update has ended)
    cur,          \* the locals of handle_url while an update is a download
    replies,      \* the chat calls of the update being processed
    ev,           \* the handler of that update and how it ended
    delivered,    \* per user: a video reached the chat since the platform was chosen
    probe         \* a direct call of is_valid_url: its arguments and its result

vars == <<user_state, files, pc, cur, replies, ev, delivered, probe>>

\* dict operations on user_state
HasSession(us, u) == u \in DOMAIN us
Put(us, u, session) ==
    [x \in DOMAIN us \cup {u} |-> IF x = u THEN session ELSE us[x]]

Unset     == "unset"      \* the key "quality" is not in the session dict
Unbound   == <<>>         \* the local file_path has not been assigned
\* the path prepare_filename returns for the token t: "downloads/<t>.<ext>"
FilePath(t) == <<"downloads", t>>
NoSize    == [gib |-> 0, rem |-> 0]
NoCur     == [user_id |-> 0, message |-> <<>>, platform |-> "none",
              quality |-> "none", file_token |-> 0, file_path |-> Unbound,
              format_height |-> <<>>, format |-> <<>>,
              exc |-> FALSE, size |-> NoSize]
NoProbe   == [platform |-> "none", url |-> <<>>, checked |-> FALSE, result |-> FALSE]

\* the sizes a downloaded file is given here: 500 MB, 2 GiB, 2 GiB + 1
Sizes == { [gib |-> 0, rem |-> 500 * 1000 * 1000],
           [gib |-> 2, rem |-> 0],
           [gib |-> 2, rem |-> 1] }

\* uuid4().hex[:10] names a file no request has used; the token stands for it
Tokens == 1..MaxFiles
\* a file "downloads/<token>.<ext>" (part = FALSE) or "downloads/<token>.<ext>.part"
File(t, part) == [token |-> t, part |-> part]
UsedTokens(fs) == {f.token : f \in fs}
FreshToken(fs) ==
    CHOOSE t \in Tokens \ UsedTokens(fs) :
        \A t2 \in Tokens \ UsedTokens(fs) : t <= t2

\* the texts users send in the session flow, before strip()
m_youtube  == <<" ">> \o c_http \o c_s \o c_css \o c_youtu_be \o <<"/","a","\n">>
m_tiktok   == c_vt \o c_tiktok \o <<"/","a">>
m_facebook == c_http \o c_css \o c_m \o c_facebook \o <<"/","a">>
m_text     == <<"h","i">>
Msgs == {m_youtube, m_tiktok, m_facebook, m_text}

\* the quality buttons users press in the session flow
QualityChoices == {"1080p", "2k"}

Reply(kind, ok) == [kind |-> kind, ok |-> ok]
\* what a platform selection overwrote, when the update is one: the quality and
\* the video_sent of the session the dict held before (NoPrev when none)
NoPrev == [had |-> FALSE, quality |-> Unset, video_sent |-> FALSE]
Event(h, u, exit, err) ==
    [handler |-> h, user |-> u, exit |-> exit, error |-> err, replaced |-> NoPrev]
NoEvent == Event("none", 0, "none", "none")
ErrOf(ok) == IF ok THEN "none" ELSE "TelegramError"

\* how a handler that answers a callback query and then edits the message goes:
\* query.answer() raises, the edit raises, or both return
CallbackOutcomes == {"answer_raised", "edit_raised", "ok"}

Init ==
    /\ user_state = [u \in {} |-> 0]
    /\ files = {}
    /\ pc = "idle"
    /\ cur = NoCur
    /\ replies = <<>>
    /\ ev = NoEvent
    /\ delivered = [u \in Users |-> FALSE]
    /\ probe = NoProbe

\* ------------------------------------------------------------- handlers
\* start: replies with the welcome keyboard; touches no session
start(u) ==
    /\ pc = "idle"
    /\ \E ok \in BOOLEAN :
        /\ replies' = <<Reply("welcome", ok)>>
        /\ ev' = Event("start", u, "done", ErrOf(ok))
    /\ pc' = "done"
    /\ UNCHANGED <<user_state, files, cur, delivered, probe>>

\* menu_handler: answers the callback and shows the platform keyboard
menu_handler(u) ==
    /\ pc = "idle"
    /\ \E o \in CallbackOutcomes :
        /\ replies' = IF o = "answer_raised" THEN <<>>
                      ELSE <<Reply("platform_menu", o = "ok")>>
        /\ ev' = Event("menu_handler", u, "done", ErrOf(o = "ok"))
    /\ pc' = "done"
    /\ UNCHANGED <<user_state, files, cur, delivered, probe>>

\* a variant of PlatformSession that marks the new session as sent
PlatformSession_sent(platform) ==
    [platform |-> platform, quality |-> Unset, video_sent |-> TRUE]

\* the session button_handler stores for data = "platform:<platform>"
PlatformSession(platform) ==
    [platform |-> platform, quality |-> Unset, video_sent |-> FALSE]

\* a variant of QualitySession that also makes the session take a download again
QualitySession_reset(old, quality) ==
    [old EXCEPT !.quality = quality, !.video_sent = FALSE]

\* the session button_handler stores for data = "quality:<quality>"
QualitySession(old, quality) == [old EXCEPT !.quality = quality]

\* a variant of button_platform that assigns only the key "platform" of a
\* session the user already has
button_platform_update(u, platform) ==
    /\ pc = "idle"
    /\ \E o \in CallbackOutcomes :
        /\ user_state' = IF o = "answer_raised" THEN user_state
                         ELSE IF HasSession(user_state, u)
                         THEN Put(user_state, u,
                                  [user_state[u] EXCEPT !.platform = platform])
                         ELSE Put(user_state, u, PlatformSession(platform))
        /\ delivered' = delivered
        /\ replies' = IF o = "answer_raised" THEN <<>>
                      ELSE <<Reply("quality_menu", o = "ok")>>
        /\ ev' = [Event("button_handler", u, "platform", ErrOf(o = "ok")) EXCEPT
                     !.replaced = IF o # "answer_raised" /\ HasSession(user_state, u)
                                  THEN [had |-> TRUE,
                                        quality |-> user_state[u].quality,
                                        video_sent |-> user_state[u].video_sent]
                                  ELSE NoPrev]
    /\ pc' = "done"
    /\ UNCHANGED <<files, cur, probe>>

\* button_handler with data = "platform:<platform>"
button_platform(u, platform) ==
    /\ pc = "idle"
    /\ \E o \in CallbackOutcomes :
        /\ user_state' = IF o # "answer_raised"
                         THEN Put(user_state, u, PlatformSession(platform))
                         ELSE user_state
        /\ delivered' = IF o # "answer_raised"
                        THEN [delivered EXCEPT ![u] = FALSE] ELSE delivered
        /\ replies' = IF o = "answer_raised" THEN <<>>
                      ELSE <<Reply("quality_menu", o = "ok")>>
        /\ ev' = [Event("button_handler", u, "platform", ErrOf(o = "ok")) EXCEPT
                     !.replaced = IF o # "answer_raised" /\ HasSession(user_state, u)
                                  THEN [had |-> TRUE,
                                        quality |-> user_state[u].quality,
                                        video_sent |-> user_state[u].video_sent]
                                  ELSE NoPrev]
    /\ pc' = "done"
    /\ UNCHANGED <<files, cur, probe>>

\* a variant of button_quality that is dispatched while another handler runs
button_quality_concurrent(u, quality) ==
    /\ \E o \in CallbackOutcomes :
        /\ user_state' = IF o # "answer_raised" /\ HasSession(user_state, u)
                         THEN Put(user_state, u, QualitySession(user_state[u], quality))
                         ELSE user_state
        /\ replies' = IF o = "answer_raised" THEN <<>>
                      ELSE IF HasSession(user_state, u)
                           THEN <<Reply("url_prompt", o = "ok")>>
                           ELSE <<Reply("expired", o = "ok")>>
        /\ ev' = Event("button_handler", u, "quality", ErrOf(o = "ok"))
    /\ pc' = "done"
    /\ UNCHANGED <<files, cur, delivered, probe>>

\* button_handler with data = "quality:<quality>"
button_quality(u, quality) ==
    /\ pc = "idle"
    /\ \E o \in CallbackOutcomes :
        /\ user_state' = IF o # "answer_raised" /\ HasSession(user_state, u)
                         THEN Put(user_state, u, QualitySession(user_state[u], quality))
                         ELSE user_state
        /\ replies' = IF o = "answer_raised" THEN <<>>
                      ELSE IF HasSession(user_state, u)
                           THEN <<Reply("url_prompt", o = "ok")>>
                           ELSE <<Reply("expired", o = "ok")>>
        /\ ev' = Event("button_handler", u, "quality", ErrOf(o = "ok"))
    /\ pc' = "done"
    /\ UNCHANGED <<files, cur, delivered, probe>>

\* ------------------------------------------------------------ handle_url
\* a variant of QualityOf whose default is the lowest quality
QualityOf_default360(session) ==
    IF session.quality = Unset THEN "360p" ELSE session.quality

\* session.get("quality", "720p")
QualityOf(session) ==
    IF session.quality = Unset THEN DefaultQuality ELSE session.quality

\* a variant of Guard without the URL validation
Guard_novalidation(us, u, message) ==
    IF ~HasSession(us, u) THEN "restart"
    ELSE IF us[u].video_sent THEN "duplicate"
    ELSE "pass"

\* a variant of Guard without the video_sent guard
Guard_noduplicate(us, u, message) ==
    IF ~HasSession(us, u) THEN "restart"
    ELSE IF ~is_valid_url(us[u].platform, message) THEN "invalid"
    ELSE "pass"

\* a variant of Guard that validates the URL before it looks at video_sent
Guard_validate_first(us, u, message) ==
    IF ~HasSession(us, u) THEN "restart"
    ELSE IF ~is_valid_url(us[u].platform, message) THEN "invalid"
    ELSE IF us[u].video_sent THEN "duplicate"
    ELSE "pass"

\* the guards of handle_url, in the order of the code: the reply of the guard
\* that stops the message, or "pass"
Guard(us, u, message) ==
    IF ~HasSession(us, u) THEN "restart"
    ELSE IF us[u].video_sent THEN "duplicate"
    ELSE IF ~is_valid_url(us[u].platform, message) THEN "invalid"
    ELSE "pass"

\* the exit recorded for a message a guard stops
GuardExit(g) ==
    CASE g = "restart"   -> "no_session"
      [] g = "duplicate" -> "duplicate"
      [] g = "invalid"   -> "invalid"

\* handle_url up to the "Downloading" notice: the three guards, then the notice.
\* A guard that stops the message replies and returns. The notice is sent outside
\* the try block, so an error of that call leaves the handler.
handle_url(u, text) ==
    /\ pc = "idle"
    /\ LET message == Strip(text)
           g == Guard(user_state, u, message)
       IN  \E ok \in BOOLEAN :
             IF g # "pass"
             THEN /\ replies' = <<Reply(g, ok)>>
                  /\ ev' = Event("handle_url", u, GuardExit(g), ErrOf(ok))
                  /\ cur' = [NoCur EXCEPT !.user_id = u, !.message = message]
                  /\ pc' = "done"
             ELSE /\ Tokens \ UsedTokens(files) # {}
                  /\ replies' = <<Reply("downloading", ok)>>
                  /\ cur' = [NoCur EXCEPT !.user_id = u, !.message = message,
                                          !.platform = user_state[u].platform,
                                          !.quality = QualityOf(user_state[u])]
                  /\ ev' = Event("handle_url", u,
                                 IF ok THEN "running" ELSE "notice_raised", ErrOf(ok))
                  /\ pc' = IF ok THEN "engine" ELSE "done"
    /\ UNCHANGED <<user_state, files, delivered, probe>>

\* a quality label as the characters of its python string
QualityChars(quality) ==
    CASE quality = "360p"  -> <<"3", "6", "0", "p">>
      [] quality = "720p"  -> <<"7", "2", "0", "p">>
      [] quality = "1080p" -> <<"1", "0", "8", "0", "p">>
      [] quality = "2k"    -> <<"2", "k">>

\* str.replace(old, "") for a one-character old: every occurrence is removed
ReplaceWithEmpty(s, old) == SelectSeq(s, LAMBDA c : c # old)

\* line 120: format_height = quality.replace("p", "")
FormatHeight(quality) == ReplaceWithEmpty(QualityChars(quality), "p")

\* line 123: f'best[height<={format_height}]/best'
FormatOption(format_height) ==
    <<"b", "e", "s", "t", "[", "h", "e", "i", "g", "h", "t", "<", "=">>
    \o format_height \o <<"]", "/", "b", "e", "s", "t">>

\* what the extraction engine does with one request (extract_info with
\* download=True, then prepare_filename): it raises before any data is written,
\* it raises and leaves the partial download behind, it returns without the
\* expected file, or it returns with the file written
EngineOutcomes ==
    {[kind |-> k, size |-> NoSize] : k \in {"raise", "raise_partial", "missing"}}
    \cup {[kind |-> "file", size |-> sz] : sz \in Sizes}

\* lines 117-136: the token, the engine call and prepare_filename
engine_call ==
    /\ pc = "engine"
    /\ \E o \in EngineOutcomes :
         LET t == FreshToken(files)
             raised == o.kind \in {"raise", "raise_partial"}
         IN  /\ files' = CASE o.kind = "raise_partial" -> files \cup {File(t, TRUE)}
                           [] o.kind = "file" -> files \cup {File(t, FALSE)}
                           [] OTHER -> files
             /\ cur' = [cur EXCEPT !.file_token = t,
                                   !.format_height = FormatHeight(cur.quality),
                                   !.format = FormatOption(FormatHeight(cur.quality)),
                                   !.file_path = IF raised THEN Unbound ELSE FilePath(t),
                                   !.exc = raised,
                                   !.size = o.size]
    /\ pc' = "downloaded"
    /\ UNCHANGED <<user_state, replies, ev, delivered, probe>>

\* os.path.exists(file_path) for a bound file_path
PathExists(fs, path) == \E f \in fs : FilePath(f.token) = path /\ ~f.part
\* os.path.getsize(file_path): the size of the file the engine wrote
GetSize(fs, path) == cur.size
\* os.remove(file_path)
Remove(fs, path) == {f \in fs : ~(FilePath(f.token) = path /\ ~f.part)}

\* the test of line 142
TooLarge(size) == SizeGT(size, SizeLimit)

\* the value line 155 stores in video_sent
SentValue == TRUE
\* a variant of ResetValue: the except block marks the session as sent
ResetValue_true == TRUE
\* the value line 163 stores in video_sent
ResetValue == FALSE

\* a variant of SetSent that writes the flag into every session of the store
SetSent_all(us, u, v) == [x \in DOMAIN us |-> [us[x] EXCEPT !.video_sent = v]]

\* the assignment user_state[user_id]["video_sent"] = v
SetSent(us, u, v) == [us EXCEPT ![u] = [us[u] EXCEPT !.video_sent = v]]

\* The except block (lines 158-164), entered with the state st the try block
\* left: the failure reply, then the cleanup, which reads file_path.
ExceptBlock(st, okFail) ==
    LET r == Append(st.replies, Reply("failure", okFail))
    IN  IF ~okFail
        THEN [st EXCEPT !.replies = r, !.exit = "crashed", !.error = "TelegramError"]
        ELSE IF cur.file_path = Unbound
        THEN [st EXCEPT !.replies = r, !.exit = "crashed", !.error = "UnboundLocalError"]
        ELSE [st EXCEPT !.replies = r, !.exit = "failed", !.error = "none",
                        !.files = IF PathExists(st.files, cur.file_path)
                                  THEN Remove(st.files, cur.file_path)
                                  ELSE st.files,
                        !.user_state = SetSent(st.user_state, cur.user_id, ResetValue)]

\* The rest of the try block (lines 138-156) and the except block, for the
\* outcomes ok1 (the first chat call of the try block), ok2 (the success reply)
\* and okFail (the failure reply of the except block).
FinishResult(ok1, ok2, okFail) ==
    LET st0 == [user_state |-> user_state, files |-> files, replies |-> replies,
                delivered |-> delivered, exit |-> "running", error |-> "none"]
        u == cur.user_id
        path == cur.file_path
    IN  IF cur.exc THEN ExceptBlock(st0, okFail)
        ELSE IF ~PathExists(files, path)
        THEN LET st1 == [st0 EXCEPT !.replies = Append(@, Reply("file_missing", ok1))]
             IN  IF ok1 THEN [st1 EXCEPT !.exit = "file_missing"]
                 ELSE ExceptBlock(st1, okFail)
        ELSE IF TooLarge(GetSize(files, path))
        THEN LET st1 == [st0 EXCEPT !.replies = Append(@, Reply("oversize", ok1))]
             IN  IF ok1 THEN [st1 EXCEPT !.exit = "oversize",
                                         !.files = Remove(@, path)]
                 ELSE ExceptBlock(st1, okFail)
        ELSE LET st1 == [st0 EXCEPT !.replies = Append(@, Reply("video", ok1))]
             IN  IF ~ok1 THEN ExceptBlock(st1, okFail)
                 ELSE LET st2 == [st1 EXCEPT
                                    !.delivered = [@ EXCEPT ![u] = TRUE],
                                    !.files = Remove(@, path),
                                    !.user_state = SetSent(@, u, SentValue),
                                    !.replies = Append(@, Reply("success", ok2))]
                      IN  IF ok2 THEN [st2 EXCEPT !.exit = "sent"]
                          ELSE ExceptBlock(st2, okFail)

\* lines 138-164: handle_url from the return of the engine to its end
handle_url_finish ==
    /\ pc = "downloaded"
    /\ \E ok1 \in BOOLEAN, ok2 \in BOOLEAN, okFail \in BOOLEAN :
         LET st == FinishResult(ok1, ok2, okFail)
         IN  /\ user_state' = st.user_state
             /\ files' = st.files
             /\ replies' = st.replies
             /\ delivered' = st.delivered
             /\ ev' = [ev EXCEPT !.exit = st.exit, !.error = st.error]
    /\ pc' = "done"
    /\ UNCHANGED <<cur, probe>>

\* the dispatcher of run_polling: the handler of the update has ended (an error
\* that left it went to error_handler, which logs it), the next update is awaited
next_update ==
    /\ pc = "done"
    /\ pc' = "idle"
    /\ cur' = NoCur
    /\ replies' = <<>>
    /\ ev' = NoEvent
    /\ UNCHANGED <<user_state, files, delivered, probe>>

Next ==
    \/ \E u \in Users : start(u)
    \/ \E u \in Users : menu_handler(u)
    \/ \E u \in Users, p \in PLATFORMS : button_platform(u, p)
    \/ \E u \in Users, q \in QualityChoices : button_quality(u, q)
    \/ \E u \in Users, text \in Msgs : handle_url(u, text)
    \/ engine_call
    \/ handle_url_finish
    \/ next_update

Spec == Init /\ [][Next]_vars

\* ------------------------------------------------ is_valid_url on its own
c_ftp == <<"f","t","p">>
c_x   == <<"x">>
c_a   == <<"a">>

\* the URLs is_valid_url is called with: scheme, prefix, subdomain, domain, tail
ProbeSchemes == {<<>>, c_http \o c_css, c_http \o c_s \o c_css, c_ftp \o c_css}
ProbePrefixes == {<<>>, c_x, c_x \o c_slash}
ProbeSubs == {<<>>, c_www, c_m, c_vm, c_vt}
ProbeDomains == {c_youtube, c_youtu_be, c_tiktok, c_facebook}
ProbeTails == {<<>>, c_slash, c_slash \o c_a, c_x \o c_slash \o c_a}
ProbeUrls ==
    {sc \o pre \o sub \o d \o tl :
        sc \in ProbeSchemes, pre \in ProbePrefixes, sub \in ProbeSubs,
        d \in ProbeDomains, tl \in ProbeTails}

InitValidator ==
    /\ user_state = [u \in {} |-> 0]
    /\ files = {}
    /\ pc = "idle"
    /\ cur = NoCur
    /\ replies = <<>>
    /\ ev = NoEvent
    /\ delivered = [u \in Users |-> FALSE]
    /\ probe \in {[platform |-> p, url |-> url, checked |-> FALSE, result |-> FALSE] :
                      p \in PLATFORMS, url \in ProbeUrls}

\* a call is_valid_url(platform, url)
validate ==
    /\ ~probe.checked
    /\ probe' = [probe EXCEPT !.checked = TRUE,
                              !.result = is_valid_url(probe.platform, probe.url)]
    /\ UNCHANGED <<user_state, files, pc, cur, replies, ev, delivered>>

SpecValidator == InitValidator /\ [][validate]_vars

\* ------------------------------------------------------------ URL parts
\* The parts of a URL, read off the text without any pattern: the scheme is what
\* stands before the first "://" when no "/" precedes it, the host runs from
\* there to the first "/", the path is what follows that "/".
FirstIndex(s, lit) ==
    IF \E i \in 1..Len(s) : HasAt(s, i, lit)
    THEN CHOOSE i \in 1..Len(s) :
            HasAt(s, i, lit) /\ \A j \in 1..(i - 1) : ~HasAt(s, j, lit)
    ELSE 0
UrlParts(s) ==
    LET k == FirstIndex(s, c_css)
        hasScheme == k > 1 /\ FirstIndex(SubSeq(s, 1, k - 1), c_slash) = 0
        rest == IF hasScheme THEN SubSeq(s, k + 3, Len(s)) ELSE s
        j == FirstIndex(rest, c_slash)
    IN  [hasScheme |-> hasScheme,
         scheme |-> IF hasScheme THEN SubSeq(s, 1, k - 1) ELSE <<>>,
         host |-> IF j = 0 THEN rest ELSE SubSeq(rest, 1, j - 1),
         path |-> IF j = 0 THEN <<>> ELSE SubSeq(rest, j + 1, Len(rest))]

\* the hosts of each platform: the canonical domain, the short-link domains and
\* the subdomain variants
PlatformHosts(p) ==
    CASE p = "YouTube"  -> {c_youtube, c_www \o c_youtube, c_youtu_be, c_www \o c_youtu_be}
      [] p = "TikTok"   -> {c_tiktok, c_www \o c_tiktok, c_vm \o c_tiktok, c_vt \o c_tiktok}
      [] p = "Facebook" -> {c_facebook, c_www \o c_facebook, c_m \o c_facebook}

\* url is a URL of platform p: http or https or no scheme, a host of p, and a
\* non-empty path after the "/"
UrlOfPlatform(p, url) ==
    LET parts == UrlParts(url)
    IN  /\ parts.hasScheme => parts.scheme \in {c_http, c_http \o c_s}
        /\ parts.host \in PlatformHosts(p)
        /\ parts.path # <<>>

\* ---------------------------------------------------------------- claims

\* C9: for every platform P and every URL, is_valid_url(P, url) is true exactly
\* when the URL's host is P's canonical domain or one of P's short-link domains
\* (scheme http/https optional, subdomain variants optional) followed by "/" and
\* a non-empty path; it is false for a URL of any other domain, in particular
\* for a URL of another platform.
C9_ValidatorAcceptsExactlyPlatformUrls ==
    probe.checked =>
        /\ probe.result <=> UrlOfPlatform(probe.platform, probe.url)
        /\ \A q \in PLATFORMS \ {probe.platform} :
              UrlOfPlatform(q, probe.url) => ~probe.result

\* a short link of YouTube has been checked and accepted for YouTube
C9_Witness ==
    /\ probe.checked
    /\ probe.platform = "YouTube"
    /\ probe.url = c_http \o c_s \o c_css \o c_youtu_be \o c_slash \o c_a
    /\ probe.result

\* ------------------------------------------------- vocabulary of the claims
Sent(u) == HasSession(user_state, u) /\ user_state[u].video_sent
Issued(rs, kind) == \E i \in 1..Len(rs) : rs[i].kind = kind
Arrived(rs, kind) == \E i \in 1..Len(rs) : rs[i].kind = kind /\ rs[i].ok
Raised(rs, kind) == \E i \in 1..Len(rs) : rs[i].kind = kind /\ ~rs[i].ok

\* handle_url has ended (by a return or by an error that left it)
UrlDone == pc = "done" /\ ev.handler = "handle_url"
\* the engine was invoked in the handle_url call that has ended
EngineRan == cur.file_token # 0
\* the step that starts handle_url for user u
UrlStep(u) == pc = "idle" /\ ev'.handler = "handle_url" /\ ev'.user = u
\* that step invokes the engine
InvokesEngine == pc' = "engine"
\* the artifact files of the request that has ended
Artifacts == {f \in files : f.token = cur.file_token}
\* more than 2 * 1024 * 1024 * 1024 bytes
Over2GiB(size) == size.gib > 2 \/ (size.gib = 2 /\ size.rem > 0)
\* the engine returned and its output file was on disk
FileWritten == EngineRan /\ ~cur.exc /\ cur.size # NoSize

\* C1 (as claimed): once a video was sent in a user's session, every later text
\* message of that user before the next platform selection gets the
\* duplicate-submission reply and does not invoke the engine, whatever its text.
C1_DuplicateAfterDelivery ==
    [][\A u \in Users :
          (UrlStep(u) /\ delivered[u]) =>
              /\ Len(replies') = 1 /\ replies'[1].kind = "duplicate"
              /\ ~InvokesEngine]_vars

\* C2 (as claimed): when handle_url ends, by whatever exit, no file written by
\* that request remains in the downloads directory.
C2_NoArtifactRemains == UrlDone => Artifacts = {}

\* C3 (as claimed): the engine is invoked only for sessions in which both the
\* platform and the quality are set; a message of a user who has chosen no
\* quality never reaches the engine.
C3_EngineOnlyWithQuality ==
    pc \in {"engine", "downloaded"} =>
        /\ HasSession(user_state, cur.user_id)
        /\ user_state[cur.user_id].quality # Unset

\* C3 (amended): the engine is invoked only for users who have a session, that
\* is a platform; a missing quality does not stop the message: the request then
\* runs with the quality 720p, otherwise with the quality of the session.
C3_EngineOnlyWithPlatform ==
    pc \in {"engine", "downloaded"} =>
        /\ HasSession(user_state, cur.user_id)
        /\ user_state[cur.user_id].platform \in PLATFORMS
        /\ cur.platform = user_state[cur.user_id].platform
        /\ user_state[cur.user_id].quality = Unset => cur.quality = "720p"
        /\ user_state[cur.user_id].quality # Unset =>
              cur.quality = user_state[cur.user_id].quality

\* the engine is running for a user who has chosen no quality
C3_Witness ==
    /\ pc = "engine"
    /\ user_state[cur.user_id].quality = Unset
    /\ cur.quality = "720p"

\* the download of the handle_url call that has ended failed: the engine raised,
\* the output file was missing, the file was oversize, or sending the video failed
FailedDownload ==
    /\ UrlDone
    /\ EngineRan
    /\ \/ cur.exc
       \/ Issued(replies, "file_missing")
       \/ Issued(replies, "oversize")
       \/ Raised(replies, "video")

\* user u's session takes a download: it exists and is not marked as sent
Eligible(u) == HasSession(user_state, u) /\ ~user_state[u].video_sent

\* a step that starts handle_url with a text the validator accepts for the
\* session's platform, for a user whose session takes a download, passes the
\* guards: the notice is sent and, unless that call raises, the engine is invoked
AcceptsValidUrl(u) ==
    (/\ UrlStep(u)
     /\ Eligible(u)
     /\ is_valid_url(user_state[u].platform, cur'.message)) =>
        /\ replies'[1].kind = "downloading"
        /\ replies'[1].ok => InvokesEngine

\* the steps inside handle_url leave the platform and the quality of its user
DownloadKeepsChoices ==
    pc \in {"engine", "downloaded"} =>
        /\ user_state'[cur.user_id].platform = user_state[cur.user_id].platform
        /\ user_state'[cur.user_id].quality = user_state[cur.user_id].quality

AcceptsValidUrls == \A u \in Users : AcceptsValidUrl(u)

\* C4: after a failed download (engine raised, output file missing, oversize
\* file, sending the video failed) the session's sentFlag is false and its
\* platform and quality are what they were when the download began, and the
\* next valid URL message of that user passes the guards and invokes the engine.
C4_RetryAfterFailure ==
    /\ [](FailedDownload =>
            /\ Eligible(cur.user_id)
            /\ user_state[cur.user_id].platform = cur.platform
            /\ user_state[cur.user_id].quality \in {cur.quality, Unset}
            /\ is_valid_url(user_state[cur.user_id].platform, cur.message))
    /\ [][DownloadKeepsChoices]_vars
    /\ [][AcceptsValidUrls]_vars

\* sending the video has failed and the except block has run to its end
C4_Witness ==
    /\ FailedDownload
    /\ Raised(replies, "video")
    /\ ev.exit = "failed"
    /\ Eligible(cur.user_id)

\* C5 (as claimed): every exception of the engine is caught inside handle_url:
\* the failure message is sent, sentFlag is set to false and handle_url returns
\* without an exception leaving the handler.
C5_EngineErrorCaught ==
    (UrlDone /\ EngineRan /\ cur.exc /\ Arrived(replies, "failure")) =>
        /\ ev.error = "none"
        /\ ~Sent(cur.user_id)

\* C6 (as claimed): when reply_video has returned without error, sentFlag is true
\* at the end of that handle_url call, even if a later chat reply failed.
C6_SentFlagAfterDelivery ==
    (UrlDone /\ Arrived(replies, "video")) => Sent(cur.user_id)

\* a platform selection whose callback was answered stores a session that is
\* not marked as sent
PlatformStoresUnsent(u) ==
    (/\ pc = "idle"
     /\ ev'.handler = "button_handler" /\ ev'.exit = "platform" /\ ev'.user = u
     /\ replies' # <<>>) =>
        (HasSession(user_state', u) /\ ~user_state'[u].video_sent)

\* sentFlag turns true only at the end of a download whose video was sent
SentOnlyByDownload(u) ==
    (~Sent(u) /\ Sent(u)') =>
        (pc = "downloaded" /\ cur.user_id = u /\ Arrived(replies', "video"))

SentFlagSteps == \A u \in Users : PlatformStoresUnsent(u) /\ SentOnlyByDownload(u)

\* a message the validator rejects is answered with the invalid-URL reply and
\* changes nothing
InvalidUrlStep(u) ==
    (/\ UrlStep(u)
     /\ Eligible(u)
     /\ ~is_valid_url(user_state[u].platform, cur'.message)) =>
        /\ Len(replies') = 1 /\ replies'[1].kind = "invalid"
        /\ pc' = "done"
        /\ user_state' = user_state
        /\ files' = files
        /\ delivered' = delivered

InvalidUrlSteps == \A u \in Users : InvalidUrlStep(u)

\* C7: a session whose sentFlag is true has had a video sent since the platform
\* selection that created it; a platform selection stores sentFlag = false, and
\* only the end of a download whose video was sent turns sentFlag to true.
C7_SentOnlyAfterDelivery ==
    /\ [](\A u \in Users : Sent(u) => delivered[u])
    /\ [][SentFlagSteps]_vars

\* a session is marked as sent
C7_Witness == \E u \in Users : Sent(u) /\ delivered[u] /\ pc = "idle"

\* C8: a text message the validator rejects for the session's platform gets the
\* invalid-URL reply, invokes no download and leaves every session and the
\* files unchanged; a valid URL for that platform sent afterwards passes the
\* guards and invokes the engine.
C8_InvalidUrlChangesNothing ==
    /\ [][InvalidUrlSteps]_vars
    /\ [][AcceptsValidUrls]_vars

\* a Facebook URL has been refused for a TikTok session, which still takes a
\* download
C8_Witness ==
    /\ UrlDone
    /\ ev.exit = "invalid"
    /\ cur.message = m_facebook
    /\ user_state[cur.user_id].platform = "TikTok"
    /\ Eligible(cur.user_id)

\* C10 (as claimed): when the downloaded file is larger than 2 GiB handle_url
\* deletes it, reports the oversize condition, never tries to send the video
\* and leaves sentFlag false; a file of 2 GiB or less is not refused as oversize.
C10_OversizeRejected ==
    (UrlDone /\ FileWritten) =>
        IF Over2GiB(cur.size)
        THEN /\ Artifacts = {}
             /\ Issued(replies, "oversize")
             /\ ~Issued(replies, "video")
             /\ ~Sent(cur.user_id)
        ELSE ~Issued(replies, "oversize")

\* the step is the platform selection of user u, with its callback answered
PlatformStep(u) ==
    /\ pc = "idle"
    /\ ev'.handler = "button_handler" /\ ev'.exit = "platform" /\ ev'.user = u
    /\ replies' # <<>>

\* a start command changes no session
StartKeepsSessions ==
    (pc = "idle" /\ ev'.handler = "start") => user_state' = user_state

CompletedLeftByPlatform ==
    \A u \in Users : (Sent(u) /\ ~Sent(u)') => PlatformStep(u)

Digits == {"0", "1", "2", "3", "4", "5", "6", "7", "8", "9"}
\* a non-empty string of decimal digits
IsNumeric(s) == s # <<>> /\ \A i \in 1..Len(s) : s[i] \in Digits

\* the height ceiling inside the format option 'best[height<=H]/best'
HeightCeiling(format) == SubSeq(format, 14, Len(format) - 6)

\* C12: once handle_url has built the engine's options, the height ceiling in
\* the format constraint is a numeric pixel height, for whichever quality label
\* the session holds.
C12_HeightCeilingNumeric ==
    EngineRan => IsNumeric(HeightCeiling(cur.format))

\* the step answers with the single reply of one guard and ends the handler
StoppedWith(kind) ==
    /\ Len(replies') = 1 /\ replies'[1].kind = kind
    /\ pc' = "done"
    /\ files' = files

\* the order of the guards at the step that starts handle_url for user u
GuardOrderStep(u) ==
    UrlStep(u) =>
        /\ ~HasSession(user_state, u) => StoppedWith("restart")
        /\ Sent(u) => StoppedWith("duplicate")
        /\ (Eligible(u) /\ ~is_valid_url(user_state[u].platform, cur'.message))
               => StoppedWith("invalid")
        /\ (InvokesEngine \/ Issued(replies', "downloading"))
               => (Eligible(u) /\ is_valid_url(user_state[u].platform, cur'.message))
GuardOrderSteps == \A u \in Users : GuardOrderStep(u)

\* C13: handle_url applies its guards in a fixed order, each stopping the rest:
\* no session gives the restart reply; otherwise sentFlag true gives the
\* duplicate reply, also for a text that is not a valid URL; otherwise an
\* invalid URL gives the invalid-URL reply; the engine is invoked only when all
\* three guards pass.
C13_GuardOrder == [][GuardOrderSteps]_vars

\* a completed session got the duplicate reply for a text that is no valid URL
C13_Witness ==
    /\ UrlDone /\ ev.exit = "duplicate"
    /\ Sent(ev.user)
    /\ ~is_valid_url(user_state[ev.user].platform, cur.message)
    /\ Arrived(replies, "duplicate")

\* the step leaves user u with the given session and every other user's session
\* as it was
StoresOnly(u, session) ==
    /\ DOMAIN user_state' = DOMAIN user_state \cup {u}
    /\ user_state'[u] = session
    /\ \A v \in DOMAIN user_state \ {u} : user_state'[v] = user_state[v]

\* the step is a quality selection of user u
QualityStep(u) ==
    /\ pc = "idle"
    /\ ev'.handler = "button_handler" /\ ev'.exit = "quality" /\ ev'.user = u
\* the callback query was answered, so the handler went on to its branch
Answered == replies' # <<>>

QualitySelection(u) ==
    QualityStep(u) =>
        IF HasSession(user_state, u)
        THEN /\ HasSession(user_state', u)
             /\ user_state'[u].platform = user_state[u].platform
             /\ user_state'[u].video_sent = user_state[u].video_sent
             /\ Answered =>
                   /\ replies'[1].kind = "url_prompt"
                   /\ \E q \in QUALITIES :
                         StoresOnly(u, [user_state[u] EXCEPT !.quality = q])
        ELSE /\ user_state' = user_state
             /\ Answered => (Len(replies') = 1 /\ replies'[1].kind = "expired")
QualitySelections == \A u \in Users : QualitySelection(u)

\* C14: a quality selection from a user who has no session reports the
\* session-expired condition and leaves the session store unchanged (no session
\* is created); a quality selection from a user who has a session stores the
\* quality and changes neither platform nor sentFlag.
C14_QualitySelection == [][QualitySelections]_vars

\* a quality selection was stored in a completed session, which stays completed
C14_Witness ==
    /\ pc = "done"
    /\ ev.handler = "button_handler" /\ ev.exit = "quality"
    /\ Arrived(replies, "url_prompt")
    /\ Sent(ev.user)
    /\ user_state[ev.user].quality = "2k"

\* the session a platform selection stores: the platform and sentFlag = false
FreshSession(platform) ==
    [platform |-> platform, quality |-> Unset, video_sent |-> FALSE]

PlatformSelection(u) ==
    PlatformStep(u) =>
        /\ \E p \in PLATFORMS : StoresOnly(u, FreshSession(p))
        /\ Eligible(u)'
PlatformSelections == \A u \in Users : PlatformSelection(u)

\* C15: a platform selection in any state replaces the user's whole session with
\* a new one holding only the chosen platform and sentFlag = false; a quality
\* stored before and a sentFlag that was true are both discarded, so the session
\* takes a download again.
C15_PlatformReplacesSession == [][PlatformSelections]_vars

\* a platform selection has replaced a completed session that held a quality
C15_Witness ==
    /\ pc = "done"
    /\ ev.handler = "button_handler" /\ ev.exit = "platform"
    /\ ev.replaced.video_sent /\ ev.replaced.quality # Unset
    /\ user_state[ev.user] \in {FreshSession(p) : p \in PLATFORMS}

\* a download is in flight: the engine is invoked or has returned, and handle_url
\* has not ended
InFlight == pc \in {"engine", "downloaded"}

\* while a download is in flight the only steps are those of the handle_url call
\* that runs it, and only its user's session can change
OnlyTheDownloadRuns ==
    InFlight =>
        /\ ev'.handler = "handle_url" /\ ev'.user = cur.user_id
        /\ cur'.user_id = cur.user_id /\ cur'.message = cur.message
        /\ pc = "engine" => pc' = "downloaded"
        /\ pc = "downloaded" => pc' = "done"
        /\ \A v \in Users \ {cur.user_id} :
              /\ HasSession(user_state', v) = HasSession(user_state, v)
              /\ HasSession(user_state, v) => user_state'[v] = user_state[v]

\* one handler runs at a time: a handler that has started and not ended is the
\* handle_url call described by cur, and it is the only download
OneHandlerAtATime ==
    /\ InFlight => (ev.handler = "handle_url" /\ ev.user = cur.user_id /\ cur.user_id \in Users)
    /\ pc = "idle" => (cur = NoCur /\ ev = NoEvent)

\* C16: updates are processed one at a time: while one user's download is in
\* flight (from the engine invocation to the end of handle_url) no other update
\* of any user is processed, so at most one download is in flight and no other
\* handler changes the session store during a download.
C16_OneUpdateAtATime == []OneHandlerAtATime /\ [][OnlyTheDownloadRuns]_vars

\* a download is in flight while another user has a session
C16_Witness ==
    /\ pc = "downloaded"
    /\ \E v \in Users \ {cur.user_id} : HasSession(user_state, v) /\ ~user_state[v].video_sent

\* the user whose event the step processes: the user of the update a handler
\* starts with, or the user of the handle_url call that goes on
Actor == IF pc = "idle" THEN ev'.user ELSE cur.user_id

\* the session stored for user v is the same before and after the step
SessionKept(v) ==
    /\ HasSession(user_state', v) = HasSession(user_state, v)
    /\ HasSession(user_state, v) => user_state'[v] = user_state[v]

\* a step changes at most the session of the user whose event it processes, and
\* none at all for the start command, the menu callback and the dispatcher
FrameOfEvents ==
    /\ \A v \in Users : v # Actor => SessionKept(v)
    /\ (pc = "idle" /\ ev'.handler \in {"start", "menu_handler"})
          => user_state' = user_state
    /\ pc = "done" => user_state' = user_state

\* C17: every event (platform selection, quality selection, text message, start
\* command) issued by user u changes at most the session stored for u; the
\* session of every other user is left unchanged, and the start command and the
\* menu callback change no session at all.
C17_OnlyOwnSessionChanges == [][FrameOfEvents]_vars

\* a download of one user has completed that user's session while another
\* user's session still waits for its URL
C17_Witness ==
    /\ UrlDone /\ EngineRan
    /\ Sent(ev.user)
    /\ \E v \in Users \ {ev.user} :
          HasSession(user_state, v) /\ ~user_state[v].video_sent

\* the handle_url call that has ended had passed the three guards
PassedGuards == UrlDone /\ cur.quality # "none"
\* outcome 1: the video was sent and the session is Completed
VideoOutcome == Arrived(replies, "video") /\ Sent(cur.user_id)
\* outcome 2: no video, a failure, oversize or file-missing message was sent and
\* the session takes another URL
FailureOutcome ==
    /\ ~Arrived(replies, "video")
    /\ \/ Arrived(replies, "failure")
       \/ Arrived(replies, "oversize")
       \/ Arrived(replies, "file_missing")
    /\ Eligible(cur.user_id)

\* C18 (as claimed): a URL message that passed the three guards ends in exactly
\* one of two outcomes: the video is sent and the session is Completed, or a
\* failure, oversize or file-missing message is sent and the session is
\* retry-eligible. Stated for the calls that returned without an error leaving
\* the handler.
C18_ExactlyOneOutcome ==
    (PassedGuards /\ ev.error = "none") => (VideoOutcome # FailureOutcome)

====
